---------------------------- MODULE Spec2Model ----------------------------
(***************************************************************************)
(* State-machine model of the SnakeGame component                          *)
(* (src/src/snake/SnakeGame.jsx): the React state and refs of the          *)
(* component, its keyboard / swipe / button handlers and the animation     *)
(* frame callback that performs the logical steps.                         *)
(*                                                                         *)
(* Time is counted in units of 1/UnitsPerSecond seconds, the coarsest      *)
(* unit in which the step interval 1 / (2.2 * level) of every difficulty   *)
(* level is a whole number.  Speeds are counted in tenths of a cell per    *)
(* second, so that BASE_SPEED_PER_LEVEL (2.2) is the integer 22.           *)
(***************************************************************************)
EXTENDS Integers, Sequences, FiniteSets

\* ------------------------------------------------------------ constants
GRID_COLS == 32
GRID_ROWS == 32
DIFFICULTIES == {3, 5, 7, 9}
\* 2.2 cells per second per level, in tenths of a cell per second
BASE_SPEED_PER_LEVEL == 22
INITIAL_LEVEL == 3
NORMAL_POINTS == 15
SPECIAL_POINTS == 30
\* time units per second: 1 / (2.2 * level) s is 315 / level units
UnitsPerSecond == 693
\* 5 seconds
SPECIAL_DURATION == 5 * UnitsPerSecond

Pt(px, py) == [x |-> px, y |-> py]
SNAKE_INITIAL == <<Pt(8, 16), Pt(7, 16), Pt(6, 16)>>
\* the four unit vectors of DIRECTIONS, by arrow key (w/a/s/d and W/A/S/D
\* map to the same four vectors)
DIRECTIONS == [ArrowUp |-> Pt(0, -1), ArrowDown |-> Pt(0, 1),
               ArrowLeft |-> Pt(-1, 0), ArrowRight |-> Pt(1, 0)]
DirectionKeys == DOMAIN DIRECTIONS
UnitVectors == {DIRECTIONS[k] : k \in DirectionKeys}
\* the value of specialFood when there is none
null == [x |-> -1, y |-> -1, spawnTime |-> -1]

\* --------------------------------------------------------------- bounds
\* animation frames modelled per run (a logical step needs a frame)
MaxTicks == 4
\* the random cells considered are (9,15) and the RandSpan cells ahead of
\* the initial head on its row
RandSpan == 2

\* the difficulty buttons the modelled player clicks: Easy and Medium
ClickedLevels == {3, 5}
\* the frame gaps delivered by requestAnimationFrame: a short frame (the
\* Medium step interval, about 91 ms) and a stall of 5 s (a suspended tab)
ShortFrame == (10 * UnitsPerSecond) \div (BASE_SPEED_PER_LEVEL * 5)
Stall == SPECIAL_DURATION
FrameGaps == {ShortFrame, Stall}
\* the clock is followed over one stall and MaxTicks short frames
MaxNow == Stall + MaxTicks * ShortFrame

Grid == {Pt(cx, cy) : cx \in 0..(GRID_COLS - 1), cy \in 0..(GRID_ROWS - 1)}
\* the cells randomInt(GRID_COLS), randomInt(GRID_ROWS) are drawn from
RandomCells ==
    {c \in Grid : \/ c.x = 9 /\ c.y = 15
                  \/ c.y = 16 /\ c.x > 8 /\ c.x <= 8 + RandSpan}

\* a cell randomInt draws once the sampling loop has rejected all of
\* RandomCells
LaterCell == Pt(24, 8)

VARIABLES
    snake,          \* useState: body, head first
    dir,            \* dirRef.current (and the dir state set with it)
    food,           \* useState: regular food cell
    pendingGrowth,  \* useState
    score,          \* useState
    gameOver,       \* useState
    level,          \* useState
    speed,          \* useState, tenths of a cell per second
    specialFood,    \* useState: null or [x, y, spawnTime]
    gameStarted,    \* useState
    paused,         \* useState
    accRef,         \* accRef.current, time units
    now,            \* performance.now(), time units (= lastTimeRef.current)
    keyLevel,       \* the level closed over by the restart/startGame that
                    \* the registered keyHandler calls
    steps,          \* history: logical steps executed in this session
    stepDir,        \* history: direction used by the last step of the session
    ticks,          \* history: animation frames delivered
    eaten,          \* history: the last eat of the session
    audio,          \* getAudioCtx() returns a context (Web Audio available)
    cue             \* the sound played by the last handler run, or "none"

game == <<snake, dir, food, pendingGrowth, score, gameOver, level, speed,
          specialFood, gameStarted, paused, accRef>>
hist == <<steps, stepDir, eaten>>
vars == <<snake, dir, food, pendingGrowth, score, gameOver, level, speed,
          specialFood, gameStarted, paused, accRef, now, keyLevel,
          steps, stepDir, ticks, eaten, audio, cue>>

\* ------------------------------------------------------------- helpers
\* the session phase, from the three flags
PhaseOf(gs, p, go) ==
    IF go THEN "GameOver"
    ELSE IF ~gs THEN "NotStarted"
    ELSE IF p THEN "Paused"
    ELSE "Playing"
Phase == PhaseOf(gameStarted, paused, gameOver)

\* faulty variant: no segment is ever found on the cell
someMut(s, c) == FALSE
\* faulty variant: the last segment is not looked at
someButTailMut(s, c) == \E i \in 1..(Len(s) - 1) : s[i].x = c.x /\ s[i].y = c.y
\* snake.some(seg => seg.x === c.x && seg.y === c.y)
some(s, c) == \E i \in 1..Len(s) : s[i].x = c.x /\ s[i].y = c.y

\* faulty variant: the first sample is returned, occupied or not
placeFoodMut(s) == RandomCells
\* faulty variant: a sample is tested against the head only
placeFoodHeadMut(s) == {c \in RandomCells : c.x # s[1].x \/ c.y # s[1].y}
\* placeFood: the cells the sampling loop can return, a free cell among
\* those drawn first or, when the snake covers them all, a later draw
placeFood(s) ==
    LET free == {c \in RandomCells : ~some(s, c)}
    IN  IF free # {} THEN free ELSE {c \in {LaterCell} : ~some(s, c)}

\* faulty variant: the samples are not tested against the snake
maybeSpawnSpecialMut(regularFood, s, t) ==
    {null}
    \cup {[x |-> c.x, y |-> c.y, spawnTime |-> t] :
            c \in {k \in RandomCells :
                     k.x # regularFood.x \/ k.y # regularFood.y}}
    \cup {[x |-> regularFood.x, y |-> regularFood.y, spawnTime |-> t]}
\* maybeSpawnSpecial at time t: no special, a sampled cell off the regular
\* food and off the snake, or (all 200 samples rejected) the regular food cell
maybeSpawnSpecial(regularFood, s, t) ==
    {null}
    \cup {[x |-> c.x, y |-> c.y, spawnTime |-> t] :
            c \in {k \in RandomCells :
                     (k.x # regularFood.x \/ k.y # regularFood.y) /\ ~some(s, k)}}
    \cup {[x |-> regularFood.x, y |-> regularFood.y, spawnTime |-> t]}

\* 1 / speed seconds, in time units
stepInterval(sp) == (10 * UnitsPerSecond) \div sp

\* faulty variant: the left and top edges are not wrapped
nextHeadOfMut(head, d) ==
    LET nx == head.x + d.x
        ny == head.y + d.y
    IN  [x |-> IF nx >= GRID_COLS THEN 0 ELSE nx,
         y |-> IF ny >= GRID_ROWS THEN 0 ELSE ny]
\* the head after one move in direction d, wrapped on the torus
nextHeadOf(head, d) ==
    LET nx == head.x + d.x
        ny == head.y + d.y
    IN  [x |-> IF nx < 0 THEN GRID_COLS - 1
               ELSE IF nx >= GRID_COLS THEN 0 ELSE nx,
         y |-> IF ny < 0 THEN GRID_ROWS - 1
               ELSE IF ny >= GRID_ROWS THEN 0 ELSE ny]

\* faulty variant: the tail segment is not removed
popMut(s) == s
\* faulty variant: two segments are removed from the tail
popTwoMut(s) == SubSeq(s, 1, Len(s) - 2)
\* newSnake.pop()
pop(s) == SubSeq(s, 1, Len(s) - 1)

\* history values: no step yet, no eat yet.  An eat is recorded with its
\* kind, the body length and pendingGrowth before it, and the special food
\* it spawned
NoDir == Pt(0, 0)
NoEat == [kind |-> "none", len |-> 0, owed |-> 0, spawned |-> null]


\* ----------------------------------------------------------- sounds
\* playStartSound / playPauseResumeSound / playQuitSound / playEatSound /
\* playGameOverSound: each returns at once when getAudioCtx() gives no
\* context; c is the sound of the handler run, "none" when it calls none
play(c) ==
    /\ cue' = IF audio THEN c ELSE "none"
    /\ UNCHANGED audio
\* the sound of a logical step with result r
stepSound(r) ==
    IF r.gameOver THEN "gameOver"
    ELSE IF r.ate = "special" THEN "eatSpecial"
    ELSE IF r.ate = "regular" THEN "eat"
    ELSE "none"

\* --------------------------------------------------- the logical step
\* faulty variant: the special award applied twice
awardSpecialMut(sc) == sc + SPECIAL_POINTS + SPECIAL_POINTS
\* awardSpecial: setScore(s => s + SPECIAL_POINTS)
awardSpecial(sc) == sc + SPECIAL_POINTS

\* faulty variant: the points are taken off
awardNormalNegMut(sc) == sc - NORMAL_POINTS
\* faulty variant: the superseded level-scaled award
awardNormalMut(sc) == sc + NORMAL_POINTS * level
\* the regular-food award: setScore(s => s + NORMAL_POINTS)
awardNormal(sc) == sc + NORMAL_POINTS

\* faulty variant: the tail is kept when no growth is owed, too
keepTailMut(pg) == pg >= 0
\* the tail decision of a step reads the pendingGrowth of the render the
\* callback was created in (pg), not the value the step's own updates
\* produce: TRUE when the tail is kept
keepTail(pg) == pg > 0

\* faulty variant: the colliding step returns the moved body
selfCollisionMut(prev, nextHead, f, sf, pg, sc) ==
    [snake |-> <<nextHead>> \o pop(prev), food |-> f, specialFood |-> sf,
     pendingGrowth |-> pg, score |-> sc, gameOver |-> TRUE, ate |-> "none"]
\* the result of a step that runs into the body: setGameOver(true) and
\* `return prev`, nothing else is set
selfCollision(prev, nextHead, f, sf, pg, sc) ==
    [snake |-> prev, food |-> f, specialFood |-> sf, pendingGrowth |-> pg,
     score |-> sc, gameOver |-> TRUE, ate |-> "none"]

\* faulty variant: a regular eat that spawns nothing keeps the special food
specialAfterEatMut(sf, special) == IF special = null THEN sf ELSE special
\* the regular eat calls setSpecialFood(special) with the result of
\* maybeSpawnSpecial, whatever the special food sf on the board
specialAfterEat(sf, special) == special

\* The setSnake updater of one logical step, run on body prev with the
\* direction d, food f, special food sf, pendingGrowth pg and score sc of
\* the current render, at time t: the set of its possible results (one per
\* outcome of the random draws).  ate is "none", "regular" or "special".
step(prev, d, f, sf, pg, sc, t) ==
    LET head == prev[1]
        nextHead == nextHeadOf(head, d)
        newSnake == <<nextHead>> \o prev
        body == IF keepTail(pg) THEN newSnake ELSE pop(newSnake)
        dec == IF keepTail(pg) THEN 1 ELSE 0
    IN  IF some(prev, nextHead)
        THEN {selfCollision(prev, nextHead, f, sf, pg, sc)}
        ELSE IF sf # null /\ nextHead.x = sf.x /\ nextHead.y = sf.y
        THEN {[snake |-> body, food |-> f, specialFood |-> null,
               pendingGrowth |-> (pg + 2) - dec, score |-> awardSpecial(sc),
               gameOver |-> FALSE, ate |-> "special"]}
        ELSE IF nextHead.x = f.x /\ nextHead.y = f.y
        THEN UNION {
               {[snake |-> body, food |-> nf,
                 specialFood |-> specialAfterEat(sf, special),
                 pendingGrowth |-> (pg + 1) - dec, score |-> awardNormal(sc),
                 gameOver |-> FALSE, ate |-> "regular"] :
                    special \in maybeSpawnSpecial(nf, newSnake, t)} :
               nf \in placeFood(newSnake)}
        ELSE {[snake |-> body, food |-> f, specialFood |-> sf,
               pendingGrowth |-> pg - dec, score |-> sc, gameOver |-> FALSE,
               ate |-> "none"]}

\* faulty variant: a step only when the accumulator exceeds the interval
stepsOfTickMut(a, si) == IF a > si THEN 1 ELSE 0
\* the number of logical steps a tick executes once the accumulator holds a
\* (the code tests `if (accRef.current >= stepInterval)`, once)
stepsOfTick(a, si) == IF a >= si THEN 1 ELSE 0

\* faulty variant: the timer is looked at only on frames without a step
specialExpiredIdleMut(sf, t) ==
    /\ sf # null
    /\ accRef + (t - now) < stepInterval(speed)
    /\ SPECIAL_DURATION - (t - sf.spawnTime) <= 0
\* faulty variant: the timer never reaches its test (left < 0)
specialExpiredMut(sf, t) ==
    /\ sf # null
    /\ LET elapsed == t - sf.spawnTime
           diff == SPECIAL_DURATION - elapsed
           left == IF diff > 0 THEN diff ELSE 0
       IN  left < 0
\* the special-food timer of a tick at time t, for the special food sf of
\* the current render: left = max(0, SPECIAL_DURATION - elapsed) <= 0
specialExpired(sf, t) ==
    /\ sf # null
    /\ LET elapsed == t - sf.spawnTime
           diff == SPECIAL_DURATION - elapsed
           left == IF diff > 0 THEN diff ELSE 0
       IN  left <= 0

\* the keydown effect is re-run, and keyHandler re-registered with the
\* restart/startGame of the current render, only when gameOver, gameStarted
\* or paused changed
KeyHandlerEffect ==
    keyLevel' = IF <<gameOver', gameStarted', paused'>>
                     # <<gameOver, gameStarted, paused>>
                THEN level' ELSE keyLevel


\* faulty variant: the frame callback does not look at gameOver
tickIdleOverMut == ~gameStarted \/ paused
\* faulty variant: the frame callback does not look at paused
tickIdleMut == ~gameStarted \/ gameOver
\* the early return of the frame callback
tickIdle == ~gameStarted \/ paused \/ gameOver

\* ------------------------------------------------------------ actions
\* the animation frame callback, dt after the previous frame
useAnimationFrame(dt) ==
    /\ ticks < MaxTicks
    /\ now + dt <= MaxNow
    /\ now' = now + dt
    /\ ticks' = ticks + 1
    /\ IF tickIdle
       THEN UNCHANGED <<game, hist>> /\ play("none")
       ELSE LET a == accRef + dt
                si == stepInterval(speed)
            IN  IF stepsOfTick(a, si) = 1
                THEN /\ accRef' = a - si
                     /\ \E r \in step(snake, dir, food, specialFood,
                                      pendingGrowth, score, now') :
                          /\ snake' = r.snake
                          /\ food' = r.food
                          /\ pendingGrowth' = r.pendingGrowth
                          /\ score' = r.score
                          /\ gameOver' = r.gameOver
                          /\ specialFood' = IF specialExpired(specialFood, now')
                                            THEN null ELSE r.specialFood
                          /\ eaten' = IF r.ate # "none"
                                      THEN [kind |-> r.ate, len |-> Len(snake),
                                            owed |-> pendingGrowth,
                                            spawned |-> r.specialFood]
                                      ELSE eaten
                          /\ play(stepSound(r))
                     /\ steps' = steps + 1
                     /\ stepDir' = dir
                     /\ UNCHANGED <<dir, level, speed, gameStarted, paused>>
                ELSE /\ accRef' = a
                     /\ specialFood' = IF specialExpired(specialFood, now')
                                       THEN null ELSE specialFood
                     /\ UNCHANGED <<snake, dir, food, pendingGrowth, score,
                                    gameOver, level, speed, gameStarted,
                                    paused, hist>>
                     /\ play("none")
    /\ KeyHandlerEffect

\* faulty variant: no reversal test
handleDirectionMut(next) == dir' = next
\* handleDirection(next): the reversal test is made against dirRef.current
handleDirection(next) ==
    dir' = IF next.x = -dir.x /\ next.y = -dir.y THEN dir ELSE next

\* faulty variant: the growth still owed is not cleared
restartMut(lv) ==
    /\ snake' = SNAKE_INITIAL
    /\ dir' = Pt(1, 0)
    /\ food' \in placeFood(SNAKE_INITIAL)
    /\ pendingGrowth' = pendingGrowth
    /\ score' = 0
    /\ gameOver' = FALSE
    /\ speed' = BASE_SPEED_PER_LEVEL * lv
    /\ specialFood' = null
    /\ steps' = 0
    /\ stepDir' = NoDir
    /\ eaten' = NoEat
    /\ UNCHANGED <<level, accRef>>
\* restart(), as created in a render whose level was lv
restart(lv) ==
    /\ snake' = SNAKE_INITIAL
    /\ dir' = Pt(1, 0)
    /\ food' \in placeFood(SNAKE_INITIAL)
    /\ pendingGrowth' = 0
    /\ score' = 0
    /\ gameOver' = FALSE
    /\ speed' = BASE_SPEED_PER_LEVEL * lv
    /\ specialFood' = null
    /\ steps' = 0
    /\ stepDir' = NoDir
    /\ eaten' = NoEat
    /\ UNCHANGED <<level, accRef>>

\* faulty variant: the session starts paused
startGameMut(lv) ==
    /\ restart(lv)
    /\ gameStarted' = TRUE
    /\ paused' = TRUE
    /\ play("start")
\* startGame(), whose restart was created in a render whose level was lv
startGame(lv) ==
    /\ restart(lv)
    /\ gameStarted' = TRUE
    /\ paused' = FALSE
    /\ play("start")

\* faulty variant: quitting a paused game leaves it paused
quitGameMut ==
    /\ restart(level)
    /\ gameStarted' = FALSE
    /\ paused' = paused
    /\ play("quit")
\* quitGame()
quitGame ==
    /\ restart(level)
    /\ gameStarted' = FALSE
    /\ paused' = FALSE
    /\ play("quit")

Keys == DirectionKeys \cup {"Enter", "p"}

\* the keydown listener
keyHandler(key) ==
    /\ IF key \in DirectionKeys
       THEN IF ~gameStarted \/ paused \/ gameOver
            THEN UNCHANGED <<game, hist>> /\ play("none")
            ELSE /\ handleDirection(DIRECTIONS[key])
                 /\ UNCHANGED <<snake, food, pendingGrowth, score, gameOver,
                                level, speed, specialFood, gameStarted,
                                paused, accRef, hist>>
                 /\ play("none")
       ELSE IF gameOver /\ key = "Enter"
       THEN /\ restart(keyLevel)
            /\ gameStarted' = TRUE
            /\ paused' = FALSE
            /\ play("none")
       ELSE IF key = "p"
       THEN /\ paused' = IF gameStarted /\ ~gameOver THEN ~paused ELSE paused
            /\ UNCHANGED <<snake, dir, food, pendingGrowth, score, gameOver,
                           level, speed, specialFood, gameStarted, accRef,
                           hist>>
            /\ play("none")
       ELSE IF key = "Enter" /\ ~gameStarted /\ ~gameOver
       THEN startGame(keyLevel)
       ELSE UNCHANGED <<game, hist>> /\ play("none")
    /\ UNCHANGED <<now, ticks>>
    /\ KeyHandlerEffect

\* the touchend listener, for a swipe longer than the threshold along d
onTouchEnd(d) ==
    /\ handleDirection(d)
    /\ UNCHANGED <<snake, food, pendingGrowth, score, gameOver, level, speed,
                   specialFood, gameStarted, paused, accRef, hist, now, ticks>>
    /\ play("none")
    /\ KeyHandlerEffect

\* faulty variant: the gameOver test inverted, the lock is off during play
difficultyDisabledMut == gameStarted /\ gameOver /\ score > 0
\* the disabled attribute of the difficulty buttons
difficultyDisabled == gameStarted /\ ~gameOver /\ score > 0

\* a click on the difficulty button of level l (a disabled button ignores it);
\* the [level] effect then sets the same speed again
selectDifficulty(l) ==
    /\ IF difficultyDisabled
       THEN UNCHANGED <<level, speed>>
       ELSE /\ level' = l
            /\ speed' = BASE_SPEED_PER_LEVEL * l
    /\ UNCHANGED <<snake, dir, food, pendingGrowth, score, gameOver,
                   specialFood, gameStarted, paused, accRef, hist, now, ticks>>
    /\ play("none")
    /\ KeyHandlerEffect

\* the Quit buttons are rendered in the panel while gameStarted && !gameOver
\* and on the game-over overlay
quitVisible == (gameStarted /\ ~gameOver) \/ gameOver

QuitButton ==
    /\ quitVisible
    /\ quitGame
    /\ UNCHANGED <<now, ticks>>
    /\ KeyHandlerEffect

\* the Start Game button of the start overlay
StartGameButton ==
    /\ ~gameStarted /\ ~gameOver
    /\ startGame(level)
    /\ UNCHANGED <<now, ticks>>
    /\ KeyHandlerEffect

\* the Play Again button of the game-over overlay
PlayAgainButton ==
    /\ gameOver
    /\ restart(level)
    /\ gameStarted' = TRUE
    /\ play("start")
    /\ UNCHANGED <<paused, now, ticks>>
    /\ KeyHandlerEffect

\* faulty variant: the button is shown on the game-over screen too
PauseButtonMut ==
    /\ gameStarted
    /\ paused' = ~paused
    /\ play(IF ~paused THEN "pause" ELSE "resume")
    /\ UNCHANGED <<snake, dir, food, pendingGrowth, score, gameOver, level,
                   speed, specialFood, gameStarted, accRef, hist, now, ticks>>
    /\ KeyHandlerEffect
\* the Pause / Resume button
PauseButton ==
    /\ gameStarted /\ ~gameOver
    /\ paused' = ~paused
    /\ play(IF ~paused THEN "pause" ELSE "resume")
    /\ UNCHANGED <<snake, dir, food, pendingGrowth, score, gameOver, level,
                   speed, specialFood, gameStarted, accRef, hist, now, ticks>>
    /\ KeyHandlerEffect

Init ==
    /\ snake = SNAKE_INITIAL
    /\ dir = Pt(1, 0)
    /\ food \in placeFood(SNAKE_INITIAL)
    /\ pendingGrowth = 0
    /\ score = 0
    /\ gameOver = FALSE
    /\ level = INITIAL_LEVEL
    /\ speed = BASE_SPEED_PER_LEVEL * INITIAL_LEVEL
    /\ specialFood = null
    /\ gameStarted = FALSE
    /\ paused = FALSE
    /\ accRef = 0
    /\ now = 0
    /\ keyLevel = INITIAL_LEVEL
    /\ steps = 0
    /\ stepDir = NoDir
    /\ ticks = 0
    /\ eaten = NoEat
    /\ audio = FALSE
    /\ cue = "none"

Next ==
    \/ \E dt \in FrameGaps : useAnimationFrame(dt)
    \/ \E key \in Keys : keyHandler(key)
    \/ \E d \in UnitVectors : onTouchEnd(d)
    \/ \E l \in ClickedLevels : selectDifficulty(l)
    \/ QuitButton
    \/ StartGameButton
    \/ PlayAgainButton
    \/ PauseButton

Spec == Init /\ [][Next]_vars

\* ----------------------------------------------- vocabulary of the claims
\* only the frame callback advances the clock
IsTick == now' # now
\* a tick that executes a logical step
StepDue ==
    /\ IsTick
    /\ Phase = "Playing"
    /\ accRef + (now' - now) >= stepInterval(speed)
NextHead == nextHeadOf(snake[1], dir)
AtSpecial(c) == specialFood # null /\ c.x = specialFood.x /\ c.y = specialFood.y
AtFood(c) == c.x = food.x /\ c.y = food.y
Opposite(a, b) == a.x = -b.x /\ a.y = -b.y
\* steps that eat the regular food, eat the special food, run into the body
RegularEatStep ==
    StepDue /\ ~some(snake, NextHead) /\ AtFood(NextHead) /\ ~AtSpecial(NextHead)
SpecialEatStep ==
    StepDue /\ ~some(snake, NextHead) /\ AtSpecial(NextHead)
CollisionStep == StepDue /\ some(snake, NextHead)
\* a direction request, from the keyboard or from a swipe
DirectionRequest ==
    \/ \E key \in DirectionKeys : keyHandler(key)
    \/ \E d \in UnitVectors : onTouchEnd(d)

\* ---------------------------------------------------------------- C1
\* C1: for any two consecutive logical steps of a session, the direction
\* used by the later step is never the exact opposite of the direction used
\* by the earlier one, whatever direction requests arrive between them.
\* Violated: handleDirection compares with dirRef.current, the last
\* accepted request, not with the direction of the last step, so Up then
\* Left between two steps turns a snake moving right onto its neck.
C1_NoReversalBetweenSteps ==
    [][(StepDue /\ stepDir # NoDir) => ~Opposite(dir, stepDir)]_vars

\* ---------------------------------------------------------------- C2
\* C2: a logical step whose next head cell (after wrap) is a segment of the
\* current body sets gameOver and leaves the body as it was; score, food and
\* pendingGrowth are unchanged, and the step leaves the special food alone
\* (after the tick it is the one of before, unless that tick's timer found
\* it expired).
C2_SelfCollisionLeavesState ==
    [][CollisionStep =>
         /\ gameOver'
         /\ snake' = snake
         /\ score' = score
         /\ food' = food
         /\ pendingGrowth' = pendingGrowth
         /\ specialFood' = IF specialFood # null
                              /\ now' - specialFood.spawnTime >= SPECIAL_DURATION
                           THEN null ELSE specialFood]_vars
\* a game that ended by a collision, with food eaten before it
C2_Witness == gameOver /\ steps >= 2 /\ score > 0

\* ---------------------------------------------------------------- C3
\* C3: a direction request is accepted only while Playing: in NotStarted,
\* Paused and GameOver a request from the keyboard or from a swipe leaves
\* the direction unchanged.
\* Violated: onTouchEnd calls handleDirection without looking at the phase.
C3_DirectionOnlyWhilePlaying ==
    [][(DirectionRequest /\ Phase # "Playing") => dir' = dir]_vars

C5_Original ==
    [][(IsTick /\ Phase = "Playing") =>
         LET a == accRef + (now' - now)
             si == stepInterval(speed)
         IN  /\ steps' = steps + (a \div si)
             /\ accRef' = a % si
             /\ accRef' < si]_vars
\* C5 amended: every Playing tick adds dt to the accumulator and executes at
\* most one step: exactly one when the accumulator then holds at least one
\* stepInterval, which is subtracted once (the accumulator may stay at or
\* above stepInterval, and the steps still owed run one per later tick),
\* and none otherwise.
C5_OneStepPerTick ==
    [][(IsTick /\ Phase = "Playing") =>
         LET a == accRef + (now' - now)
             si == stepInterval(speed)
         IN  IF a >= si
             THEN steps' = steps + 1 /\ accRef' = a - si /\ stepDir' = dir
             ELSE steps' = steps /\ accRef' = a /\ snake' = snake]_vars
\* after a step, the accumulator still holds two or more step intervals
C5_Witness ==
    Phase = "Playing" /\ steps >= 1 /\ accRef >= 2 * stepInterval(speed)

\* ---------------------------------------------------------------- C6
\* C6: after every start, restart and quit the speed is BASE_SPEED_PER_LEVEL
\* times the selected level, so speed = BASE_SPEED_PER_LEVEL * level in
\* every reachable state.
\* Violated: the keydown effect does not list restart / startGame among its
\* dependencies, so Enter runs a restart that closed over an earlier level.
C6_SpeedFollowsLevel == speed = BASE_SPEED_PER_LEVEL * level

\* ---------------------------------------------------------------- C7
\* C7 as stated: a step onto the regular food adds NORMAL_POINTS, relocates
\* the food and adds 1 to pendingGrowth (read as the growth it enqueues:
\* body length + pendingGrowth rises by 1); with no further eat and no
\* collision the body is exactly 1 longer than before the eat once
\* pendingGrowth is back to 0.
\* Violated when growth was still pending at the eat: that growth is applied
\* too, and the body ends 2 or more longer than before the eat.
C7_Original ==
    [][/\ RegularEatStep =>
            /\ score' = score + NORMAL_POINTS
            /\ food' # food
            /\ Len(snake') + pendingGrowth' = Len(snake) + pendingGrowth + 1
       /\ (eaten'.kind = "regular" /\ pendingGrowth' = 0) =>
            Len(snake') = eaten'.len + 1]_vars
\* C7 amended: a step (not a collision) onto the regular food and not the
\* special food adds exactly NORMAL_POINTS, relocates the food to a cell off
\* the snake and adds exactly 1 to the growth owed, body length +
\* pendingGrowth: pendingGrowth rises by 1 if it was 0 and the body keeps
\* its length, otherwise pendingGrowth is unchanged and the body grows in
\* that step.  With no further eat, once pendingGrowth is back to 0 the body
\* is 1 + (pendingGrowth before the eat) longer than before the eat.
C7_RegularEat ==
    [][/\ RegularEatStep =>
            /\ score' = score + NORMAL_POINTS
            /\ food' # food
            /\ ~some(snake', food')
            /\ Len(snake') + pendingGrowth' = Len(snake) + pendingGrowth + 1
            /\ pendingGrowth' = IF pendingGrowth = 0 THEN 1 ELSE pendingGrowth
            /\ eaten'.kind = "regular"
       /\ (eaten'.kind = "regular" /\ pendingGrowth' = 0) =>
            Len(snake') = eaten'.len + eaten'.owed + 1]_vars
\* a regular eat made while growth was pending, all growth now applied
C7_Witness ==
    eaten.kind = "regular" /\ eaten.owed > 0 /\ pendingGrowth = 0 /\ ~gameOver

\* ---------------------------------------------------------------- C8
\* C8 as stated: a step onto the special food adds SPECIAL_POINTS once,
\* clears the special food and adds 2 to pendingGrowth (read as the growth
\* it enqueues: body length + pendingGrowth rises by 2); with no further eat
\* and no collision the body ends exactly 2 longer than before the eat.
\* Violated when growth was still pending at the eat (the regular eat that
\* spawned the special food, one step earlier): the body ends 3 longer.
C8_Original ==
    [][/\ SpecialEatStep =>
            /\ score' = score + SPECIAL_POINTS
            /\ specialFood' = null
            /\ Len(snake') + pendingGrowth' = Len(snake) + pendingGrowth + 2
       /\ (eaten'.kind = "special" /\ pendingGrowth' = 0) =>
            Len(snake') = eaten'.len + 2]_vars
\* C8 amended: a step (not a collision) onto the special food adds exactly
\* SPECIAL_POINTS, once, clears the special food and adds exactly 2 to the
\* growth owed, body length + pendingGrowth: pendingGrowth rises by 2 if it
\* was 0, and by 1 with the body growing in that step otherwise.  With no
\* further eat, once pendingGrowth is back to 0 the body is
\* 2 + (pendingGrowth before the eat) longer than before the eat.
C8_SpecialEat ==
    [][/\ SpecialEatStep =>
            /\ score' = score + SPECIAL_POINTS
            /\ specialFood' = null
            /\ food' = food
            /\ Len(snake') + pendingGrowth' = Len(snake) + pendingGrowth + 2
            /\ pendingGrowth' = IF pendingGrowth = 0 THEN 2
                                ELSE pendingGrowth + 1
            /\ eaten'.kind = "special"
       /\ (eaten'.kind = "special" /\ pendingGrowth' = 0) =>
            Len(snake') = eaten'.len + eaten'.owed + 2]_vars
\* a special food eaten, all its growth applied, 30 points on top of the
\* regular eat that spawned it
C8_Witness ==
    /\ eaten.kind = "special"
    /\ pendingGrowth = 0
    /\ score = NORMAL_POINTS + SPECIAL_POINTS
    /\ Len(snake) = eaten.len + eaten.owed + 2

\* ---------------------------------------------------------------- C9
\* C9: a special food not eaten within SPECIAL_DURATION of its spawn time is
\* removed by the first Playing tick at or after that moment, and the
\* removal does not change the score (a tick whose step eats nothing leaves
\* the score as it was).
C9_SpecialExpiry ==
    [][(/\ IsTick
        /\ Phase = "Playing"
        /\ specialFood # null
        /\ now' - specialFood.spawnTime >= SPECIAL_DURATION) =>
          /\ specialFood' = null
          /\ (~RegularEatStep /\ ~SpecialEatStep) => score' = score]_vars
\* the special food spawned by the last eat is gone and only the points of
\* that regular eat are on the score: it was removed by the timer
C9_Witness ==
    /\ eaten.kind = "regular"
    /\ eaten.spawned # null
    /\ specialFood = null
    /\ score = NORMAL_POINTS
    /\ now - eaten.spawned.spawnTime >= SPECIAL_DURATION

\* --------------------------------------------------------------- C10
OriginalPhaseChanges ==
    {<<"NotStarted", "Playing">>, <<"Playing", "Paused">>,
     <<"Paused", "Playing">>, <<"Playing", "GameOver">>,
     <<"Paused", "NotStarted">>, <<"GameOver", "NotStarted">>,
     <<"GameOver", "Playing">>}
PhaseChange == <<Phase, PhaseOf(gameStarted', paused', gameOver')>>
\* C10 as stated: every phase change is one of NotStarted->Playing,
\* Playing->Paused, Paused->Playing, Playing->GameOver, Paused->NotStarted,
\* GameOver->NotStarted, GameOver->Playing; a direct Playing->NotStarted is
\* not reachable.
\* Violated: the Quit button of the panel is rendered while Playing too.
C10_Original ==
    [][PhaseChange[1] # PhaseChange[2] =>
         PhaseChange \in OriginalPhaseChanges]_vars
\* C10 amended: every phase change is one of those seven or Playing->
\* NotStarted (the Quit button, shown whenever the game is started and not
\* over); Playing->GameOver happens only in a tick, by a step that runs into
\* the body.
C10_PhaseChanges ==
    [][PhaseChange[1] # PhaseChange[2] =>
         /\ PhaseChange \in
              OriginalPhaseChanges \cup {<<"Playing", "NotStarted">>}
         /\ PhaseChange[2] = "GameOver" => CollisionStep]_vars
\* back on the start panel, quit out of a session in which time had run
C10_Witness == Phase = "NotStarted" /\ accRef > 0 /\ ticks > 0

\* --------------------------------------------------------------- C11
\* the entry points of restart: the Quit buttons, the Start Game button,
\* the Play Again button, and Enter on the start panel or at game over
RestartEntry ==
    \/ QuitButton
    \/ StartGameButton
    \/ PlayAgainButton
    \/ (Phase \in {"NotStarted", "GameOver"} /\ keyHandler("Enter"))
\* the part of the state restart writes is the one a restart leaves
Fresh ==
    /\ score = 0
    /\ snake = SNAKE_INITIAL
    /\ dir = Pt(1, 0)
    /\ pendingGrowth = 0
    /\ specialFood = null
    /\ ~gameOver
\* C11: restart, from any phase and through any entry point, yields score 0,
\* the initial body (8,16),(7,16),(6,16), direction (1,0), pendingGrowth 0,
\* no special food and gameOver false, with the food on a cell off that
\* body; applied to the state a restart has left, it changes nothing of
\* that state but the randomly chosen food cell.
C11_RestartYieldsInitialState ==
    [][RestartEntry =>
         /\ score' = 0
         /\ snake' = SNAKE_INITIAL
         /\ dir' = Pt(1, 0)
         /\ pendingGrowth' = 0
         /\ specialFood' = null
         /\ ~gameOver'
         /\ food' \in Grid /\ ~some(SNAKE_INITIAL, food')
         /\ Fresh => UNCHANGED <<snake, dir, pendingGrowth, score,
                                 specialFood, gameOver, level, accRef>>]_vars
\* a session restarted after time had run in an earlier one: no step yet,
\* and more time on the accumulator than a session can hold before its
\* first step
C11_Witness ==
    /\ Phase = "Playing"
    /\ Fresh
    /\ steps = 0
    /\ accRef >= 2 * stepInterval(speed)

\* --------------------------------------------------------------- C12
\* C12: restart (via start, quit, Play Again or Enter) resets the step
\* accumulator to 0, so no movement time of the previous session carries
\* into the new one.
\* Violated: restart does not touch accRef, and nothing else resets it.
C12_RestartResetsAccumulator == [][RestartEntry => accRef' = 0]_vars

\* --------------------------------------------------------------- C13
\* the values that are frozen outside Playing
Frozen == <<snake, food, specialFood, score, pendingGrowth, accRef>>
\* C13: a tick delivered while NotStarted, Paused or GameOver leaves snake,
\* food, special food, score, pendingGrowth and the accumulator unchanged;
\* in GameOver these values change only through restart or quit (the Quit
\* and Play Again buttons and Enter), which also leave the accumulator.
C13_IdleTicksFreeze ==
    [][/\ (IsTick /\ Phase # "Playing") => UNCHANGED Frozen
       /\ (Phase = "GameOver" /\ ~UNCHANGED Frozen) => RestartEntry
       /\ Phase = "GameOver" => accRef' = accRef]_vars
\* on the game-over screen a special food is still on the board 5 s or more
\* after its spawn: ticks were delivered outside Playing (a Playing tick
\* would have removed it) and left it alone
C13_Witness ==
    /\ Phase = "GameOver"
    /\ specialFood # null
    /\ now - specialFood.spawnTime >= SPECIAL_DURATION

\* --------------------------------------------------------------- C14
\* a pause toggle: the p / P key or the Pause / Resume button
PauseToggle == keyHandler("p") \/ PauseButton
\* C14: a pause toggle changes Playing to Paused and Paused to Playing and
\* is ignored in NotStarted and GameOver (paused keeps its value); it
\* changes nothing else, so two consecutive toggles from Playing return to
\* Playing with snake, food, score, direction and pendingGrowth unchanged.
C14_PauseToggle ==
    [][PauseToggle =>
         /\ Phase = "Playing" => PhaseOf(gameStarted', paused', gameOver') = "Paused"
         /\ Phase = "Paused" => PhaseOf(gameStarted', paused', gameOver') = "Playing"
         /\ Phase \in {"NotStarted", "GameOver"} => paused' = paused
         /\ UNCHANGED <<snake, food, score, dir, pendingGrowth, specialFood,
                        accRef, gameStarted, gameOver, level, speed>>]_vars
\* a game paused after a step that ate
C14_Witness == Phase = "Paused" /\ steps >= 1 /\ pendingGrowth > 0

\* --------------------------------------------------------------- C15
\* handleDirection called with the vector of an arrow key: a swipe along it
\* in any phase, or the key itself while Playing
DirectionIntent(key) ==
    \/ onTouchEnd(DIRECTIONS[key])
    \/ Phase = "Playing" /\ keyHandler(key)
\* C15: a request for the exact opposite of the current direction
\* (dirRef.current) is rejected and leaves it as it was; a request for any
\* other unit direction is adopted.  A request that is not adopted leaves
\* every variable as it was, so the formula is about the requests that
\* change the direction: the new direction is the requested one, and it is
\* not the opposite of the old one.
C15_OppositeRejected ==
    [][dir' # dir =>
         \A key \in DirectionKeys :
            DirectionIntent(key) =>
              /\ dir' = DIRECTIONS[key]
              /\ ~Opposite(DIRECTIONS[key], dir)]_vars
\* the snake last stepped down and now heads left
C15_Witness == Phase = "Playing" /\ stepDir = Pt(0, 1) /\ dir = Pt(-1, 0)

\* --------------------------------------------------------------- C16
\* C16: in every reachable state no two segments of the snake body occupy
\* the same cell.
C16_BodyCellsDistinct ==
    \A i, j \in 1..Len(snake) : i # j => snake[i] # snake[j]
\* a game that ended by a collision with a grown body
C16_Witness == gameOver /\ Len(snake) > Len(SNAKE_INITIAL)

\* --------------------------------------------------------------- C17
\* C17 as stated: whenever both are present, the special food and the
\* regular food occupy distinct cells.
\* Violated: when all 200 samples of maybeSpawnSpecial are rejected it
\* returns the cell of the regular food.
C17_Original == ~AtFood(specialFood)
\* C17 amended: the special food is on the cell of the regular food only
\* when the regular eat that placed this food spawned it there (the
\* fallback of maybeSpawnSpecial), never through a later relocation of the
\* food (a regular eat leaves on the board only a special food it spawned
\* itself, in that tick); a step onto a cell that holds both eats the special food only: it
\* adds SPECIAL_POINTS, removes the special food and leaves the regular
\* food where it is.
C17_DistinctUnlessFallback ==
    /\ [](AtFood(specialFood) =>
            /\ eaten.kind = "regular"
            /\ eaten.spawned = specialFood)
    /\ [][(RegularEatStep /\ specialFood' # null) =>
            /\ specialFood'.spawnTime = now'
            /\ specialFood' = eaten'.spawned]_vars
    /\ [][(SpecialEatStep /\ AtFood(NextHead)) =>
            /\ score' = score + SPECIAL_POINTS
            /\ specialFood' = null
            /\ food' = food
            /\ eaten'.kind = "special"]_vars
\* the special food was eaten on the cell of the regular food, which is
\* still there
C17_Witness ==
    /\ eaten.kind = "special"
    /\ AtFood(snake[1])
    /\ specialFood = null
    /\ ~gameOver

\* --------------------------------------------------------------- C18
\* C18: a special food is never on a cell occupied by the snake:
\* maybeSpawnSpecial returns null or a cell off the snake passed to it, its
\* fallback included (the regular food has just been placed off that
\* snake), and in every reachable state a present special food shares no
\* cell with a body segment.
C18_SpecialOffSnake ==
    /\ specialFood # null => ~some(snake, specialFood)
    /\ \A nf \in placeFood(<<NextHead>> \o snake) :
         \A sp \in maybeSpawnSpecial(nf, <<NextHead>> \o snake, now) :
            sp # null => ~some(<<NextHead>> \o snake, sp)
\* a special food on the board while the snake, grown since, has stepped on
C18_Witness ==
    /\ specialFood # null
    /\ eaten.spawned = specialFood
    /\ Len(snake) > eaten.len
    /\ ~gameOver

\* --------------------------------------------------------------- C19
\* a food placement: restart, or a step that eats the regular food
FoodPlacement == RestartEntry \/ RegularEatStep
\* C19: every food placement (initial, on restart, and after each regular
\* eat) returns a cell of the grid that no segment of the snake occupies at
\* that moment (after an eat: the body with the new head and the tail not
\* yet removed), and the sampling loop has such a cell to return.
C19_FoodOffSnake ==
    /\ ~some(SNAKE_INITIAL, food)
    /\ [][FoodPlacement =>
            /\ food' \in Grid
            /\ ~some(snake', food')
            /\ RegularEatStep => ~some(<<NextHead>> \o snake, food')]_vars
    /\ [](/\ placeFood(SNAKE_INITIAL) # {}
          /\ placeFood(<<NextHead>> \o snake) # {})
\* the food was relocated twice, by two regular eats, and the snake has
\* grown
C19_Witness ==
    /\ score = 2 * NORMAL_POINTS
    /\ eaten.kind = "regular"
    /\ Len(snake) > Len(SNAKE_INITIAL)
    /\ ~some(snake, food)

\* --------------------------------------------------------------- C20
\* A game in progress anywhere on the board: a straight 3-segment snake
\* with its head on any cell, heading in any direction, nothing eaten yet,
\* followed over its next animation frames.
InitWrap ==
    /\ \E h \in Grid, d \in UnitVectors :
         /\ snake = <<h,
                      Pt((h.x - d.x + GRID_COLS) % GRID_COLS,
                         (h.y - d.y + GRID_ROWS) % GRID_ROWS),
                      Pt((h.x - 2 * d.x + GRID_COLS) % GRID_COLS,
                         (h.y - 2 * d.y + GRID_ROWS) % GRID_ROWS)>>
         /\ dir = d
    /\ food \in placeFood(snake)
    /\ pendingGrowth = 0
    /\ score = 0
    /\ gameOver = FALSE
    /\ level = INITIAL_LEVEL
    /\ speed = BASE_SPEED_PER_LEVEL * INITIAL_LEVEL
    /\ specialFood = null
    /\ gameStarted = TRUE
    /\ paused = FALSE
    /\ accRef = 0
    /\ now = 0
    /\ keyLevel = INITIAL_LEVEL
    /\ steps = 0
    /\ stepDir = NoDir
    /\ ticks = 0
    /\ eaten = NoEat
    /\ audio = FALSE
    /\ cue = "none"
NextWrap == \E dt \in FrameGaps : useAnimationFrame(dt)
SpecWrap == InitWrap /\ [][NextWrap]_vars

\* the next head as the claim gives it
Advance(p, d) ==
    Pt((p.x + d.x + GRID_COLS) % GRID_COLS, (p.y + d.y + GRID_ROWS) % GRID_ROWS)
\* C20: for every cell of the grid and each of the four unit directions the
\* next head a step computes is ((x+dx+COLS) mod COLS, (y+dy+ROWS) mod ROWS)
\* and lies in [0,COLS) x [0,ROWS); the head after a step that does not run
\* into the body is that cell, and every snake segment is inside the grid.
C20_WrapAround ==
    /\ [](\A d \in UnitVectors :
            /\ nextHeadOf(snake[1], d) = Advance(snake[1], d)
            /\ nextHeadOf(snake[1], d) \in Grid)
    /\ [](\A i \in 1..Len(snake) : snake[i] \in Grid)
    /\ [][(StepDue /\ ~some(snake, Advance(snake[1], dir))) =>
            snake'[1] = Advance(snake[1], dir)]_vars
\* the step from (0,5) in direction (-1,0) has put the head on (COLS-1,5)
C20_Witness ==
    /\ steps = 1
    /\ snake[1] = Pt(GRID_COLS - 1, 5)
    /\ snake[2] = Pt(0, 5)
    /\ stepDir = Pt(-1, 0)

\* --------------------------------------------------------------- C21
\* a step that neither collides nor eats, with no growth owed
PlainStep ==
    /\ StepDue
    /\ ~some(snake, NextHead)
    /\ ~AtFood(NextHead)
    /\ ~AtSpecial(NextHead)
    /\ pendingGrowth = 0
\* C21: a step with no collision, no food on the next head cell and
\* pendingGrowth 0 yields the next head followed by the old body without its
\* last segment, the length unchanged; from (8,16),(7,16),(6,16) heading
\* (1,0) with no food at (9,16) it gives (9,16),(8,16),(7,16).
C21_PlainStep ==
    [][PlainStep =>
         /\ snake' = <<NextHead>> \o SubSeq(snake, 1, Len(snake) - 1)
         /\ Len(snake') = Len(snake)
         /\ (snake = SNAKE_INITIAL /\ dir = Pt(1, 0)) =>
               snake' = <<Pt(9, 16), Pt(8, 16), Pt(7, 16)>>
         /\ score' = score /\ food' = food /\ pendingGrowth' = 0]_vars
\* the first step of a session, with the food elsewhere
C21_Witness ==
    /\ steps = 1
    /\ snake = <<Pt(9, 16), Pt(8, 16), Pt(7, 16)>>
    /\ ~AtFood(Pt(9, 16))
    /\ score = 0

\* --------------------------------------------------------------- C22
\* C22: from GameOver, pressing Enter and clicking Play Again both lead to
\* the same state: Playing, not paused, score 0, the initial body, direction
\* (1,0), no special food, and the speed of the currently selected level.
\* Violated: Enter runs the restart of the render in which the game ended;
\* after a difficulty click on the game-over screen it sets the speed of
\* the level selected before the click.
C22_EnterIsPlayAgain ==
    [][(Phase = "GameOver" /\ (keyHandler("Enter") \/ PlayAgainButton)) =>
         /\ PhaseOf(gameStarted', paused', gameOver') = "Playing"
         /\ score' = 0
         /\ snake' = SNAKE_INITIAL
         /\ dir' = Pt(1, 0)
         /\ specialFood' = null
         /\ speed' = BASE_SPEED_PER_LEVEL * level']_vars

\* --------------------------------------------------------------- C23
\* a start intent: the Start Game button or Enter on the start panel
StartIntent == Phase = "NotStarted" /\ (StartGameButton \/ keyHandler("Enter"))
\* C23: a start intent in NotStarted moves the phase to Playing, not paused,
\* with a freshly initialized session (score 0, initial body, direction
\* (1,0), no growth owed, no special food); afterwards the phase becomes
\* NotStarted again only by a quit.  (Every start sets gameStarted, which
\* is tested first.)
C23_StartThenNoReturn ==
    [][/\ (gameStarted' # gameStarted /\ StartIntent) =>
            /\ PhaseOf(gameStarted', paused', gameOver') = "Playing"
            /\ ~paused'
            /\ score' = 0
            /\ snake' = SNAKE_INITIAL
            /\ dir' = Pt(1, 0)
            /\ pendingGrowth' = 0
            /\ specialFood' = null
       /\ (Phase # "NotStarted"
           /\ PhaseOf(gameStarted', paused', gameOver') = "NotStarted") =>
            QuitButton]_vars
\* a session started before any frame was delivered
C23_Witness == Phase = "Playing" /\ ticks = 0 /\ Fresh

\* --------------------------------------------------------------- C24
\* C24: exactly one phase is active in every reachable state: the flags
\* never combine as paused with gameOver, paused without gameStarted, or
\* gameOver without gameStarted.
C24_OnePhase ==
    /\ ~(paused /\ gameOver)
    /\ ~(paused /\ ~gameStarted)
    /\ ~(gameOver /\ ~gameStarted)
    /\ Cardinality({ph \in {"NotStarted", "Playing", "Paused", "GameOver"} :
                      CASE ph = "NotStarted" -> ~gameStarted
                        [] ph = "Playing" -> gameStarted /\ ~paused /\ ~gameOver
                        [] ph = "Paused" -> gameStarted /\ paused /\ ~gameOver
                        [] OTHER -> gameStarted /\ gameOver}) = 1
\* a game over on a special eat: gameStarted is still set, paused is clear
C24_Witness ==
    /\ gameOver
    /\ gameStarted
    /\ ~paused
    /\ eaten.kind = "special"

\* --------------------------------------------------------------- C25
\* C25: the score is a non-negative integer; it changes only by +15 or +30
\* in a logical step, which never lowers it, and is set to 0 only by
\* restart.
C25_Score ==
    /\ [](score \in Nat)
    /\ [][score' # score =>
            IF score' > score
            THEN StepDue /\ score' - score \in {NORMAL_POINTS, SPECIAL_POINTS}
            ELSE score' = 0 /\ RestartEntry]_vars
\* two regular eats and a special eat in one session
C25_Witness == score = 2 * NORMAL_POINTS + SPECIAL_POINTS

\* --------------------------------------------------------------- C26
\* C26: difficulty auto-scales with score: when the score increases during
\* a session the movement speed increases.
\* Violated: the step never writes speed; only restart and the difficulty
\* buttons do.
C26_SpeedScalesWithScore == [][score' > score => speed' > speed]_vars

\* --------------------------------------------------------------- C27
\* C27: once SPECIAL_DURATION has elapsed since the spawn of the special
\* food, no step awards SPECIAL_POINTS for it, the step of the tick that
\* detects the expiry included.
\* Violated: the step of a tick runs before the tick's timer and still
\* finds the special food.
C27_NoAwardAfterDuration ==
    [][(/\ IsTick
        /\ specialFood # null
        /\ now' - specialFood.spawnTime >= SPECIAL_DURATION) =>
          score' # score + SPECIAL_POINTS]_vars

\* --------------------------------------------------------------- C28
\* C28: a special food that is present stays present, on the same cell and
\* with the same spawn time, until it is eaten, its duration elapses, or the
\* session is restarted; a regular eat neither removes nor replaces it.
\* Violated: the regular eat calls setSpecialFood with the result of
\* maybeSpawnSpecial, null or a new special food.
C28_SpecialPersists ==
    [][(specialFood # null /\ specialFood' # specialFood) =>
         \/ SpecialEatStep
         \/ IsTick /\ now' - specialFood.spawnTime >= SPECIAL_DURATION
         \/ RestartEntry]_vars

\* --------------------------------------------------------------- C29
\* a step that eats
EatStep == RegularEatStep \/ SpecialEatStep
\* C29 as stated: the tail decision of a step that eats uses pendingGrowth
\* after that step's increment, so the body is one segment longer
\* immediately after the step that ate.
\* Violated: the decision reads the pendingGrowth of before the step.
C29_Original == [][EatStep => Len(snake') = Len(snake) + 1]_vars
\* C29 amended: the tail decision of a step uses pendingGrowth as it was
\* before the step: a step that eats with no growth owed drops the tail and
\* leaves the length unchanged, the growth it enqueues is applied from the
\* next step on; a step that eats while growth is owed keeps the tail and
\* the body is one longer.
C29_TailDecision ==
    [][/\ EatStep =>
            Len(snake') = Len(snake) + (IF pendingGrowth > 0 THEN 1 ELSE 0)
       /\ (StepDue /\ ~some(snake, NextHead)) =>
            /\ Len(snake') = Len(snake) + (IF pendingGrowth > 0 THEN 1 ELSE 0)
            /\ Len(snake') + pendingGrowth' >= Len(snake) + pendingGrowth]_vars
\* just after a step that ate with nothing owed: the body is as long as
\* before, the growth is still owed
C29_Witness ==
    /\ eaten.kind = "regular"
    /\ eaten.owed = 0
    /\ Len(snake) = eaten.len
    /\ pendingGrowth = 1
    /\ ~gameOver

\* --------------------------------------------------------------- C30
\* C30: within one tick the logical step completes before the tick's
\* special-food expiry check, and the check runs on every Playing tick,
\* a step due or not: an expired special food is gone after the tick
\* whatever the step did, a step onto it in that tick still eats it, and a
\* special food spawned by that tick's step is removed with it.
C30_StepBeforeExpiry ==
    [][(IsTick /\ Phase = "Playing") =>
         LET expired == /\ specialFood # null
                        /\ now' - specialFood.spawnTime >= SPECIAL_DURATION
         IN  /\ expired => specialFood' = null
             /\ (expired /\ SpecialEatStep) =>
                   score' = score + SPECIAL_POINTS /\ eaten'.kind = "special"
             /\ (expired /\ RegularEatStep) =>
                   /\ score' = score + NORMAL_POINTS
                   /\ food' # food
                   /\ eaten'.kind = "regular"
             /\ (~expired /\ ~StepDue) =>
                   specialFood' = specialFood /\ snake' = snake
             /\ (~expired /\ RegularEatStep) =>
                   specialFood' = eaten'.spawned]_vars
\* the special food spawned by the step of the current tick is already
\* gone: the tick's expiry check, made for the one on the board before,
\* ran after the step
C30_Witness ==
    /\ eaten.kind = "regular"
    /\ eaten.spawned # null
    /\ eaten.spawned.spawnTime = now
    /\ specialFood = null
    /\ Phase = "Playing"

\* --------------------------------------------------------------- C31
\* The page with Web Audio available: getAudioCtx() returns a context
\* and every play function sounds.  (Init is the page without it: no
\* AudioContext on window, every play function returns at once.)
InitAudio ==
    /\ snake = SNAKE_INITIAL
    /\ dir = Pt(1, 0)
    /\ food \in placeFood(SNAKE_INITIAL)
    /\ pendingGrowth = 0
    /\ score = 0
    /\ gameOver = FALSE
    /\ level = INITIAL_LEVEL
    /\ speed = BASE_SPEED_PER_LEVEL * INITIAL_LEVEL
    /\ specialFood = null
    /\ gameStarted = FALSE
    /\ paused = FALSE
    /\ accRef = 0
    /\ now = 0
    /\ keyLevel = INITIAL_LEVEL
    /\ steps = 0
    /\ stepDir = NoDir
    /\ ticks = 0
    /\ eaten = NoEat
    /\ audio = TRUE
    /\ cue = "none"
SpecAudio == InitAudio /\ [][Next]_vars

\* C31: with sound available, every Playing -> Paused transition plays the
\* paused cue, every Paused -> Playing transition the resumed cue, and
\* every transition into Playing from NotStarted or GameOver the started
\* cue, whichever input causes it.
C31_CueOnEveryTransition ==
    [][audio =>
         /\ (Phase = "Playing" /\ PhaseOf(gameStarted', paused', gameOver')
                                    = "Paused") => cue' = "pause"
         /\ (Phase = "Paused" /\ PhaseOf(gameStarted', paused', gameOver')
                                    = "Playing") => cue' = "resume"
         /\ (Phase \in {"NotStarted", "GameOver"}
               /\ PhaseOf(gameStarted', paused', gameOver') = "Playing")
              => cue' = "start"]_vars

\* --------------------------------------------------------------- C32
\* C32: in every reachable state pendingGrowth >= 0, the body has at least
\* 3 segments, and body length + pendingGrowth = 3 + (regular foods eaten
\* since the last restart) + 2 * (special foods eaten since the last
\* restart); within a session the body length never decreases.
\* The count of the eats is kept step by step (a step adds 1 for a regular
\* eat, 2 for a special eat, a restart returns to 3 with nothing owed) and
\* read from the score of the session, NORMAL_POINTS per regular eat and
\* SPECIAL_POINTS = 2 * NORMAL_POINTS per special eat.
C32_GrowthAccounting ==
    /\ [](/\ pendingGrowth \in Nat
          /\ Len(snake) >= 3
          /\ SPECIAL_POINTS = 2 * NORMAL_POINTS
          /\ Len(snake) + pendingGrowth = 3 + score \div NORMAL_POINTS)
    /\ [][(snake' # snake \/ pendingGrowth' # pendingGrowth) =>
            IF StepDue
            THEN /\ Len(snake') >= Len(snake)
                 /\ Len(snake') + pendingGrowth'
                      = Len(snake) + pendingGrowth
                        + (IF SpecialEatStep THEN 2
                           ELSE IF RegularEatStep THEN 1 ELSE 0)
            ELSE /\ snake' = SNAKE_INITIAL
                 /\ pendingGrowth' = 0
                 /\ score' = 0]_vars
\* a regular and a special eat in one session, two segments grown and one
\* still owed
C32_Witness ==
    /\ score = NORMAL_POINTS + SPECIAL_POINTS
    /\ Len(snake) = 5
    /\ pendingGrowth = 1
    /\ ~gameOver

\* --------------------------------------------------------------- C33
\* the bonus time left of the special food sf at time t, as the timer of
\* the frame callback computes it: max(0, SPECIAL_DURATION - elapsed) with
\* elapsed = performance.now() / 1000 - sf.spawnTime
specialLeft(sf, t) ==
    IF sf = null THEN 0
    ELSE LET diff == SPECIAL_DURATION - (t - sf.spawnTime)
         IN  IF diff > 0 THEN diff ELSE 0
\* C33: time spent in the Paused phase does not count against a special
\* food's window: while the game stays paused, and when it resumes, the
\* special food is the one of before and its bonus time left is what it
\* was, so a special food never expires because of a pause.
\* Violated: spawnTime is a reading of the wall clock and the timer
\* subtracts it from the wall clock, which runs on while paused.
C33_PauseStopsSpecialTimer ==
    [][(/\ Phase = "Paused"
        /\ PhaseOf(gameStarted', paused', gameOver') \in {"Paused", "Playing"}
        /\ specialFood # null) =>
         /\ specialFood' = specialFood
         /\ specialLeft(specialFood', now') = specialLeft(specialFood, now)]_vars

\* --------------------------------------------------------------- C34
\* C34 as stated: in every reachable state the regular food is on no cell
\* of the snake.
\* Violated: a special food spawned by the fallback lies on the regular
\* food's cell; the step onto that cell eats the special food only and
\* leaves the regular food under the head.
C34_Original == ~some(snake, food)
\* C34 amended: the regular food is on a cell of the snake only after the
\* special food was eaten on the food's cell (the fallback tie), and until
\* the body has left that cell or the session ends.  Every other step onto the food's cell eats the food and
\* relocates it, in that same step, to a cell off the snake; the step onto
\* a cell holding both foods eats the special food and leaves the regular
\* food where it is.
C34_FoodOffSnakeUnlessTie ==
    /\ [](some(snake, food) => eaten.kind = "special" /\ specialFood = null)
    /\ [][(StepDue /\ AtFood(NextHead) /\ ~some(snake, NextHead)) =>
            IF AtSpecial(NextHead)
            THEN /\ food' = food
                 /\ AtFood(snake[1])'
                 /\ eaten'.kind = "special"
            ELSE /\ food' # food
                 /\ ~some(snake', food')]_vars
    /\ [][(some(snake', food') /\ ~some(snake, food)) =>
            SpecialEatStep /\ AtFood(NextHead)]_vars
\* the regular food under a segment behind the head: the special food was
\* eaten on its cell and the snake has moved on
C34_Witness ==
    /\ some(snake, food)
    /\ ~AtFood(snake[1])
    /\ eaten.kind = "special"
    /\ ~gameOver

\* --------------------------------------------------------------- C35
\* C35: the self-collision check is made against the whole body of before
\* the step, its last segment included: a step whose next head cell is the
\* current tail cell ends the game and moves nothing, also when
\* pendingGrowth is 0 and the tail would have left that cell in that step.
C35_TailCellCollides ==
    [][(StepDue /\ NextHead = snake[Len(snake)]) =>
         /\ gameOver'
         /\ snake' = snake
         /\ pendingGrowth' = pendingGrowth
         /\ score' = score
         /\ food' = food]_vars
\* the game ended by a step onto the tail cell with no growth owed
C35_Witness ==
    /\ gameOver
    /\ pendingGrowth = 0
    /\ stepDir = dir
    /\ nextHeadOf(snake[1], stepDir) = snake[Len(snake)]


=============================================================================
